---- MODULE Spec2Model ----
(***************************************************************************)
(* Tribute webhook server: signature verification, player-name extraction, *)
(* currency conversion, RCON command rendering and response classification *)
(* (src/main.py, src/rcon_manager.py), the webhook handler built from      *)
(* them, concurrent requests with their RCON sessions and storage          *)
(* connections, concurrent credits of a player's balance                   *)
(* (src/database.py), and load_config (src/config_loader.py).              *)
(*                                                                         *)
(* Python str values are sequences of one-character strings.  Python       *)
(* exceptions that leave a function are the value Raised(<exception>).      *)
(***************************************************************************)
EXTENDS Integers, Sequences, FiniteSets, TLC

(***************************************************************************)
(* Bounds of the model.                                                    *)
(***************************************************************************)
\* number of hex characters of a digest kept by the model (64 in SHA-256)
DigestLen == 3
\* longest RCON response text drawn by the classifier specification
MaxRespLen == 4
\* requests the server handles in one behaviour
MaxRequests == 2

\* requests handled concurrently
NumWorkers == 2

Workers == 1..NumWorkers

(***************************************************************************)
(* Python str primitives.                                                  *)
(***************************************************************************)
UpperLetters ==
  <<"A","B","C","D","E","F","G","H","I","J","K","L","M",
    "N","O","P","Q","R","S","T","U","V","W","X","Y","Z">>

LowerLetters ==
  <<"a","b","c","d","e","f","g","h","i","j","k","l","m",
    "n","o","p","q","r","s","t","u","v","w","x","y","z">>

\* characters outside 7-bit ASCII that the model uses
NonAscii == {"§", "é"}

\* str.isspace() characters the model uses
Whitespace == {" ", "\t"}

LowerChar(c) ==
  IF \E i \in 1..26 : UpperLetters[i] = c
    THEN LowerLetters[CHOOSE i \in 1..26 : UpperLetters[i] = c]
    ELSE c

UpperChar(c) ==
  IF \E i \in 1..26 : LowerLetters[i] = c
    THEN UpperLetters[CHOOSE i \in 1..26 : LowerLetters[i] = c]
    ELSE c

\* str.lower()
Lower(s) == [i \in 1..Len(s) |-> LowerChar(s[i])]

\* str.upper()
Upper(s) == [i \in 1..Len(s) |-> UpperChar(s[i])]

\* s.startswith(p, i-1)
MatchAt(s, p, i) ==
  /\ i + Len(p) - 1 <= Len(s)
  /\ \A j \in 1..Len(p) : s[i + j - 1] = p[j]

\* p in s
Contains(s, p) == \E i \in 1..(Len(s) + 1) : MatchAt(s, p, i)

\* s.replace(old, new) for a non-empty old: leftmost, non-overlapping, one pass
RECURSIVE ReplaceFrom(_, _, _, _)
ReplaceFrom(s, old, new, i) ==
  IF i > Len(s) THEN <<>>
  ELSE IF MatchAt(s, old, i)
    THEN new \o ReplaceFrom(s, old, new, i + Len(old))
    ELSE <<s[i]>> \o ReplaceFrom(s, old, new, i + 1)

Replace(s, old, new) == ReplaceFrom(s, old, new, 1)

\* str(n) for an integer n
Digits == <<"0","1","2","3","4","5","6","7","8","9">>

RECURSIVE NatToStr(_)
NatToStr(n) ==
  IF n < 10 THEN <<Digits[n + 1]>>
  ELSE NatToStr(n \div 10) \o <<Digits[(n % 10) + 1]>>

IntToStr(n) == IF n < 0 THEN <<"-">> \o NatToStr(0 - n) ELSE NatToStr(n)

\* s.strip()
RECURSIVE LStrip(_)
LStrip(s) ==
  IF s # <<>> /\ Head(s) \in Whitespace THEN LStrip(Tail(s)) ELSE s

RECURSIVE RStrip(_)
RStrip(s) ==
  IF s # <<>> /\ s[Len(s)] \in Whitespace
    THEN RStrip(SubSeq(s, 1, Len(s) - 1)) ELSE s

Strip(s) == RStrip(LStrip(s))

\* s.split(): the list of maximal runs of non-whitespace characters
RECURSIVE SplitFrom(_, _, _)
SplitFrom(s, i, cur) ==
  IF i > Len(s) THEN (IF cur = <<>> THEN <<>> ELSE <<cur>>)
  ELSE IF s[i] \in Whitespace
    THEN (IF cur = <<>> THEN <<>> ELSE <<cur>>) \o SplitFrom(s, i + 1, <<>>)
    ELSE SplitFrom(s, i + 1, Append(cur, s[i]))

Split(s) == SplitFrom(s, 1, <<>>)

(***************************************************************************)
(* Results of Python calls: Ok(v) is a normal return of v, Raised(e) an    *)
(* exception of class e leaving the call.                                  *)
(***************************************************************************)
Ok(v) == [exc |-> "none", val |-> v]

Raised(e) == [exc |-> e]

(***************************************************************************)
(* JSON values as json.loads returns them.                                 *)
(***************************************************************************)
JNull == [t |-> "null"]

JStr(s) == [t |-> "str", s |-> s]

JInt(n) == [t |-> "int", n |-> n]

JList == [t |-> "list"]

JObj(o) == [t |-> "obj", o |-> o]

EmptyDict == [k \in {} |-> JNull]

\* d.get(key, default) for a dict d
DictGet(d, key, default) == IF key \in DOMAIN d THEN d[key] ELSE default

\* bool(v) of Python for a JSON value
Truthy(v) ==
  CASE v.t = "null" -> FALSE
    [] v.t = "str"  -> v.s # <<>>
    [] v.t = "int"  -> v.n # 0
    [] v.t = "list" -> TRUE
    [] v.t = "obj"  -> DOMAIN v.o # {}

(***************************************************************************)
(* verify_signature (src/main.py).                                         *)
(***************************************************************************)
HexDigits ==
  <<"0","1","2","3","4","5","6","7","8","9","a","b","c","d","e","f">>

\* every character the model puts into a key; its position is its byte code
KeyAlphabet == <<"k", "1", "2">>

CharCode(c) == CHOOSE i \in 1..Len(KeyAlphabet) : KeyAlphabet[i] = c

RECURSIVE SumCodes(_)
SumCodes(s) == IF s = <<>> THEN 0 ELSE CharCode(Head(s)) + SumCodes(Tail(s))

\* hmac.new(key, body, sha256).hexdigest(): a deterministic function of key
\* and body into lowercase hex strings of fixed length.  The body enters by
\* its byte code bodyCode; SHA-256 itself is replaced by a small mixing
\* function and DigestLen characters are kept.
HmacHexDigest(key, bodyCode) ==
  [i \in 1..DigestLen |->
     HexDigits[((SumCodes(key) * 5 + bodyCode * (2 * i + 1) + i * i) % 16) + 1]]

IsAscii(s) == \A i \in 1..Len(s) : s[i] \notin NonAscii

\* hmac.compare_digest(a, b) on two str: TypeError unless both are ASCII
CompareDigest(a, b) ==
  IF IsAscii(a) /\ IsAscii(b) THEN Ok(a = b) ELSE Raised("TypeError")

verify_signature(bodyCode, signature, api_key) ==
  LET expected_signature == HmacHexDigest(api_key, bodyCode)
  IN  CompareDigest(signature, expected_signature)

(***************************************************************************)
(* extract_player_name (src/main.py).                                      *)
(***************************************************************************)
extract_player_name(message) ==
  IF Truthy(message)
    THEN IF message.t # "str" THEN Raised("AttributeError")
         ELSE LET words == Split(Strip(message.s))
              IN  IF words = <<>> THEN Raised("IndexError")
                  ELSE Ok(words[1])
    ELSE Ok(<<>>)

(***************************************************************************)
(* IEEE-754 binary64 arithmetic of the expression int(amount * rate).      *)
(* A natural number is a sequence of bits, least significant first.  A     *)
(* float is written as float.hex() prints it: the fourteen hex digits of   *)
(* its 53-bit significand and the binary exponent p, with value            *)
(* significand * 2^(p - 52).                                               *)
(***************************************************************************)
\* bits of the significand of a binary64
MantBits == 53

RECURSIVE NatToBits(_)
NatToBits(n) == IF n = 0 THEN <<>> ELSE <<n % 2>> \o NatToBits(n \div 2)

RECURSIVE BitsToNat(_)
BitsToNat(b) == IF b = <<>> THEN 0 ELSE Head(b) + 2 * BitsToNat(Tail(b))

\* drop the zero bits at the most significant end
RECURSIVE Normalize(_)
Normalize(b) ==
  IF b # <<>> /\ b[Len(b)] = 0 THEN Normalize(SubSeq(b, 1, Len(b) - 1)) ELSE b

\* hex digits, most significant first, to bits
RECURSIVE HexToBits(_)
HexToBits(h) ==
  IF h = <<>> THEN <<>>
  ELSE LET d == h[Len(h)]
       IN  <<d % 2, (d \div 2) % 2, (d \div 4) % 2, (d \div 8) % 2>>
             \o HexToBits(SubSeq(h, 1, Len(h) - 1))

\* b * a + carry for a small natural a
RECURSIVE MulSmall(_, _, _)
MulSmall(b, a, carry) ==
  IF b = <<>> THEN NatToBits(carry)
  ELSE LET t == a * Head(b) + carry
       IN  <<t % 2>> \o MulSmall(Tail(b), a, t \div 2)

\* b + 1
RECURSIVE Increment(_)
Increment(b) ==
  IF b = <<>> THEN <<1>>
  ELSE IF Head(b) = 0 THEN <<1>> \o Tail(b)
  ELSE <<0>> \o Increment(Tail(b))

RECURSIVE Pow2(_)
Pow2(n) == IF n = 0 THEN 1 ELSE 2 * Pow2(n - 1)

\* the float nearest to bits * 2^exp (round half to even), as the pair of
\* its significand bits and exponent
RoundToFloat(bits, exp) ==
  LET b == Normalize(bits)
      s == Len(b) - MantBits
  IN  IF s <= 0 THEN [m |-> b, e |-> exp]
      ELSE LET kept  == SubSeq(b, s + 1, Len(b))
               half  == b[s] = 1
               lower == \E i \in 1..(s - 1) : b[i] = 1
               up    == half /\ (lower \/ kept[1] = 1)
           IN  [m |-> IF up THEN Increment(kept) ELSE kept, e |-> exp + s]

\* int(x) for a float x >= 0: truncation
FloatToInt(x) ==
  IF x.e >= 0 THEN BitsToNat(x.m) * Pow2(x.e)
  ELSE IF 0 - x.e >= Len(x.m) THEN 0
  ELSE BitsToNat(SubSeq(x.m, 1 - x.e, Len(x.m)))

\* int(amount * rate) for an int amount >= 0 and a float rate >= 0
IntOfProduct(amount, rate) ==
  FloatToInt(RoundToFloat(MulSmall(HexToBits(rate.hex), amount, 0),
                          rate.p - 52))

\* a float rate written lit.num / lit.den in the configuration file
FloatRate(num, den, hex, p) ==
  [kind |-> "float", lit |-> [num |-> num, den |-> den], hex |-> hex, p |-> p]

\* an integer rate
IntRate(n) == [kind |-> "int", lit |-> [num |-> n, den |-> 1]]

(***************************************************************************)
(* convert_to_game_currency (src/main.py).                                 *)
(***************************************************************************)
\* config['currency_rates']: RUB: 0.01, USD: 1.15, EUR: 1
\*   (0.01).hex() = 0x1.47ae147ae147bp-7, (1.15).hex() = 0x1.2666666666666p+0
currency_rates ==
  [c \in {<<"R","U","B">>, <<"U","S","D">>, <<"E","U","R">>} |->
     CASE c = <<"R","U","B">> ->
            FloatRate(1, 100, <<1, 4,7,10,14,1,4,7,10,14,1,4,7,11>>, 0 - 7)
       [] c = <<"U","S","D">> ->
            FloatRate(115, 100, <<1, 2,6,6,6,6,6,6,6,6,6,6,6,6>>, 0)
       [] c = <<"E","U","R">> -> IntRate(1)]

RateIsZero(rate) == rate.lit.num = 0

convert_to_game_currency(amount, currency) ==
  IF currency.t # "str" THEN Raised("AttributeError")
  ELSE LET currency_upper == Upper(currency.s)
       IN  IF currency_upper \notin DOMAIN currency_rates THEN Ok(0)
           ELSE LET rate == currency_rates[currency_upper]
                IN  IF RateIsZero(rate) THEN Ok(0)
                    ELSE IF amount.t # "int" THEN Raised("TypeError")
                    ELSE IF rate.kind = "int"
                      THEN Ok(amount.n * rate.lit.num)
                      ELSE Ok(IntOfProduct(amount.n, rate))

(***************************************************************************)
(* RconManager (src/rcon_manager.py).                                      *)
(***************************************************************************)
HexChars ==
  {"0","1","2","3","4","5","6","7","8","9",
   "a","b","c","d","e","f","A","B","C","D","E","F"}

\* [0-9a-fk-or] under re.IGNORECASE
CodeChars ==
  HexChars \cup {"k","l","m","n","o","r","K","L","M","N","O","R"}

\* the pattern §x(?:§[0-9a-f]){6} matches at position i
HexColorAt(s, i) ==
  /\ i + 13 <= Len(s)
  /\ s[i] = "§"
  /\ s[i + 1] \in {"x", "X"}
  /\ \A j \in 0..5 : s[i + 2 + 2 * j] = "§" /\ s[i + 3 + 2 * j] \in HexChars

\* the pattern §[0-9a-fk-or] matches at position i
ColorCodeAt(s, i) ==
  /\ i + 1 <= Len(s)
  /\ s[i] = "§"
  /\ s[i + 1] \in CodeChars

\* re.sub(r'§x(?:§[0-9a-f]){6}', '', text, flags=re.IGNORECASE)
RECURSIVE SubHexColors(_, _)
SubHexColors(s, i) ==
  IF i > Len(s) THEN <<>>
  ELSE IF HexColorAt(s, i) THEN SubHexColors(s, i + 14)
  ELSE <<s[i]>> \o SubHexColors(s, i + 1)

\* re.sub(r'§[0-9a-fk-or]', '', text, flags=re.IGNORECASE)
RECURSIVE SubColorCodes(_, _)
SubColorCodes(s, i) ==
  IF i > Len(s) THEN <<>>
  ELSE IF ColorCodeAt(s, i) THEN SubColorCodes(s, i + 2)
  ELSE <<s[i]>> \o SubColorCodes(s, i + 1)

_strip_minecraft_colors(text) == SubColorCodes(SubHexColors(text, 1), 1)

\* '{player}'
PlayerPlaceholder ==
  <<"{","p","l","a","y","e","r","}">>

\* '{amount}'
AmountPlaceholder ==
  <<"{","a","m","o","u","n","t","}">>

_replace_placeholders(pattern, player_name, amount) ==
  LET result == Replace(pattern, PlayerPlaceholder, player_name)
  IN  Replace(result, AmountPlaceholder, IntToStr(amount))

\* _check_response with the success patterns tried before the error patterns
_check_response_SuccessFirst(cfg, response, player_name, amount) ==
  LET response_lower == Lower(_strip_minecraft_colors(response))
      Matches(p) ==
        Contains(response_lower,
                 Lower(_replace_placeholders(p, player_name, amount)))
  IN  IF \E i \in 1..Len(cfg.success_patterns) :
            Matches(cfg.success_patterns[i])
        THEN TRUE
      ELSE IF \E i \in 1..Len(cfg.error_patterns) :
                 Matches(cfg.error_patterns[i])
        THEN FALSE
      ELSE cfg.success_patterns = <<>>

\* cfg is self.rcon_config: error_patterns and success_patterns are
\* sequences of patterns
_check_response(cfg, response, player_name, amount) ==
  LET cleaned_response == _strip_minecraft_colors(response)
      response_lower == Lower(cleaned_response)
      Matches(p) ==
        Contains(response_lower,
                 Lower(_replace_placeholders(p, player_name, amount)))
  IN  IF \E i \in 1..Len(cfg.error_patterns) : Matches(cfg.error_patterns[i])
        THEN FALSE
      ELSE IF \E i \in 1..Len(cfg.success_patterns) :
                 Matches(cfg.success_patterns[i])
        THEN TRUE
      ELSE IF cfg.success_patterns = <<>> THEN TRUE
      ELSE FALSE

\* '%player_name%'
CmdPlayerPlaceholder ==
  <<"%","p","l","a","y","e","r","_","n","a","m","e","%">>

\* '%amount%'
CmdAmountPlaceholder ==
  <<"%","a","m","o","u","n","t","%">>

\* the command execute_command sends (lines 69-70)
RenderCommand(cfg, player_name, amount) ==
  LET command == Replace(cfg.command, CmdPlayerPlaceholder, player_name)
  IN  Replace(command, CmdAmountPlaceholder, IntToStr(amount))

\* error_msg of the ConnectionRefusedError handler ("Не удалось подключиться
\* к RCON (host:port)"), written in ASCII
ConnectErrorMsg ==
  <<"R","C","O","N"," ","c","o","n","n","e","c","t"," ","f","a","i","l","e",
    "d">>

\* the fixed part of error_msg of the generic handler ("Ошибка выполнения
\* RCON команды: " before str(e)), written in ASCII
CommandErrorMsg ==
  <<"R","C","O","N"," ","c","o","m","m","a","n","d"," ","e","r","r","o",
    "r">>

\* what the with-block of execute_command meets: the connection is refused,
\* another exception is raised, or the server answers with a text
TransportRefused == [kind |-> "refused"]

\* str(e) of the exceptions the with-block raises besides
\* ConnectionRefusedError: a socket timeout, a rejected RCON password
TimedOut == "timed out"

LoginFailed == "Login failed"

ExceptionTexts == {TimedOut, LoginFailed}

TransportError(e) == [kind |-> "error", e |-> e]

\* a fixed text as the sequence of its characters
Chars(text) == [i \in 1..Len(text) |-> SubSeq(text, i, i)]

TransportResponse(text) == [kind |-> "response", text |-> text]

\* the pair (is_success, response) execute_command returns
execute_command(cfg, player_name, amount, transport) ==
  CASE transport.kind = "response" ->
         [success |-> _check_response(cfg, transport.text, player_name, amount),
          response |-> transport.text]
    [] transport.kind = "refused" ->
         [success |-> FALSE, response |-> ConnectErrorMsg]
    [] transport.kind = "error" ->
         [success |-> FALSE,
          response |-> CommandErrorMsg \o <<":", " ">> \o Chars(transport.e)]

add_currency_to_player(cfg, player_name, amount, transport) ==
  execute_command(cfg, player_name, amount, transport).success


(***************************************************************************)
(* Inputs of the webhook endpoint.                                         *)
(***************************************************************************)
Steve == <<"S","t","e","v","e">>

SteveHello == <<"S","t","e","v","e"," ","h","e","l","l","o">>

\* a donation payload {'message': m, 'amount': a, 'currency': c}
Donation(m, a, c) == JObj([message |-> m, amount |-> a, currency |-> c])

NewSubscription ==
  JStr(<<"n","e","w","_","s","u","b","s","c","r","i","p","t","i","o","n">>)

NewDonation == JStr(<<"n","e","w","_","d","o","n","a","t","i","o","n">>)

Envelope(name, payload) == JObj([name |-> name, payload |-> payload])

\* request bodies; the position of a body in the sequence is its byte code.
\* kind "json" is a body json.loads accepts, with the value it returns;
\* "malformed" makes json.loads raise JSONDecodeError; "badutf8" is not
\* UTF-8 and makes it raise UnicodeDecodeError.
BodySeq ==
  << [kind |-> "malformed", doc |-> JNull],
     [kind |-> "badutf8", doc |-> JNull],
     [kind |-> "json", doc |-> JList],
     [kind |-> "json", doc |-> JObj(EmptyDict)],
     [kind |-> "json", doc |-> Envelope(NewSubscription, JObj(EmptyDict))],
     [kind |-> "json", doc |-> Envelope(NewSubscription, JNull)],
     [kind |-> "json", doc |-> JObj([name |-> NewDonation])],
     [kind |-> "json", doc |-> Envelope(NewDonation, JNull)],
     [kind |-> "json", doc |->
        Envelope(NewDonation, Donation(JStr(Steve), JInt(10000), JStr(<<"R","U","B">>)))],
     [kind |-> "json", doc |->
        Envelope(NewDonation,
                 Donation(JStr(SteveHello), JInt(100), JStr(<<"u","s","d">>)))],
     [kind |-> "json", doc |->
        Envelope(NewDonation, Donation(JStr(Steve), JInt(7), JStr(<<"E","U","R">>)))],
     [kind |-> "json", doc |->
        Envelope(NewDonation, Donation(JStr(Steve), JInt(100), JStr(<<"Z","Z","Z">>)))],
     [kind |-> "json", doc |->
        Envelope(NewDonation, Donation(JStr(<<>>), JInt(100), JStr(<<"R","U","B">>)))],
     [kind |-> "json", doc |->
        Envelope(NewDonation,
                 Donation(JStr(<<" "," "," ">>), JInt(100), JStr(<<"R","U","B">>)))],
     [kind |-> "json", doc |->
        Envelope(NewDonation, Donation(JNull, JInt(100), JStr(<<"R","U","B">>)))],
     [kind |-> "json", doc |->
        Envelope(NewDonation, Donation(JInt(5), JInt(100), JStr(<<"R","U","B">>)))],
     [kind |-> "json", doc |->
        Envelope(NewDonation,
                 Donation(JStr(CmdAmountPlaceholder), JInt(10000),
                          JStr(<<"R","U","B">>)))],
     [kind |-> "json", doc |->
        Envelope(NewDonation, Donation(JStr(Steve), JNull, JStr(<<"R","U","B">>)))],
     [kind |-> "json", doc |->
        Envelope(NewDonation, Donation(JStr(Steve), JInt(100), JNull))],
     [kind |-> "json", doc |-> Envelope(JStr(<<>>), JObj(EmptyDict))] >>

\* json.loads(body)
json_loads(body) ==
  CASE body.kind = "json"      -> Ok(body.doc)
    [] body.kind = "malformed" -> Raised("JSONDecodeError")
    [] body.kind = "badutf8"   -> Raised("UnicodeDecodeError")

\* config['tribute']['api_key']
api_key == <<"k","1">>

\* s with the character at position i replaced by c
WithChar(s, i, c) == [j \in 1..Len(s) |-> IF j = i THEN c ELSE s[j]]

\* another hex digit than c
OtherHex(c) == IF c = "0" THEN "1" ELSE "0"

\* values of the trbt-signature header the model sends with body b under key
\* k: the valid signature, every one-character alteration of it, its upper
\* case, a truncation, an extension, the signature of another body, the
\* empty (or missing) header, arbitrary text, and text outside ASCII
Signatures(k, b) ==
  LET good == HmacHexDigest(k, b)
  IN  {good, Upper(good), SubSeq(good, 1, Len(good) - 1), good \o <<"0">>,
       HmacHexDigest(k, b + 1), <<>>, <<"z","z">>, <<"é">>,
       WithChar(good, 1, "é")}
      \cup {WithChar(good, i, OtherHex(good[i])) : i \in 1..Len(good)}


(***************************************************************************)
(* Configuration read at start-up (config['minecraft_rcon']).              *)
(***************************************************************************)
\* 'give %player_name% %amount%'
CommandTemplate ==
  <<"g","i","v","e"," ">> \o CmdPlayerPlaceholder \o <<" ">>
    \o CmdAmountPlaceholder

RconConfig(success_patterns, error_patterns) ==
  [command |-> CommandTemplate,
   success_patterns |-> success_patterns,
   error_patterns |-> error_patterns]

\* the configuration the server runs with: success pattern 'ok', error
\* pattern 'fail'
ServerConfig == RconConfig(<<<<"o","k">>>>, <<<<"f","a","i","l">>>>)

\* texts the RCON server answers with
RconResponses ==
  {<<>>, <<"§","a","O","K">>, <<"o","k"," ","f","a","i","l">>, <<"h","m">>}

Transports ==
  {TransportRefused}
    \cup {TransportError(e) : e \in ExceptionTexts}
    \cup {TransportResponse(r) : r \in RconResponses}

(***************************************************************************)
(* State.                                                                  *)
(***************************************************************************)
VARIABLES
  rcon_config,   \* RconManager fields read from the configuration
  pc,            \* position of the request handler
  handled,       \* number of requests received so far
  req,           \* the request: byte code of its body, signature header
  data,          \* handle_webhook: the decoded JSON value
  webhook_type,  \* handle_webhook: data.get('name', '')
  payload,       \* handle_webhook: data.get('payload', {})
  player_name,   \* process_new_donation: the extracted name
  game_currency, \* process_new_donation: the converted amount
  result,        \* the result object
  http,          \* the HTTP response
  did,           \* steps the handler has performed for the request
  sent,          \* RCON exchanges of the request: command and transport
  records,       \* rows of the webhooks table, oldest first
  call,          \* arguments of a function applied on its own
  ret,           \* its return value
  workers,       \* concurrent requests: position and locals of each
  sessions,      \* RCON sessions: number opened so far, those open now
  storage,       \* webhooks database: backend, connections, rows
  credits,       \* concurrent calls of DatabaseManager.add_currency_to_player
  minecraft      \* Minecraft database: backend, the player's rows, write lock

handlerVars ==
  <<pc, handled, req, data, webhook_type, payload, player_name,
    game_currency, result, http, did, sent, records>>

workerVars == <<workers, sessions, storage>>

creditVars == <<credits, minecraft>>

vars == <<rcon_config, handlerVars, workerVars, creditVars, call, ret>>

NoCall == [fn |-> "none"]

NoRet == [exc |-> "pending"]

\* None of Python
None == JNull

\* a request that has not arrived yet: the locals of process_new_donation
\* and of execute_command, and what the request has done so far
IdleWorker ==
  [pc |-> "idle", webhook |-> None, player_name |-> None,
   game_currency |-> 0, session |-> 0, attempts |-> 0, commands |-> 0,
   reads |-> 0, classified |-> FALSE, transport |-> [kind |-> "none"],
   returned |-> [success |-> FALSE, response |-> <<>>],
   result |-> [status |-> "none"], conn |-> 0]

\* no request is in progress, no RCON session is open, the webhooks table
\* is empty; rcon_manager and db_manager are constructed (the MongoDB
\* backend keeps the client it opened, connection 0 of the model)
WorkersIdleOn(type) ==
  /\ workers = [w \in Workers |-> IdleWorker]
  /\ sessions = [opened |-> 0, open |-> {}]
  /\ storage = [type |-> type, connected |-> 0,
                open |-> IF type = "mongodb"
                           THEN {[id |-> 0, owner |-> 0]} ELSE {},
                rows |-> <<>>]

\* the state of the requests in the specifications that run one handler
WorkersIdle == WorkersIdleOn("sqlite")

\* no statement of the call awaits its commit
NothingStaged == [op |-> "none"]

\* a call of DatabaseManager.add_currency_to_player that has not begun
IdleCredit ==
  [pc |-> "idle", amount |-> 0, read |-> None, staged |-> NothingStaged,
   returned |-> None]

\* the Minecraft database as one player's rows of the balance table, oldest
\* first: the backend, whether the table has a UNIQUE key on the player
\* column, the rows before the first call, the committed rows, and the
\* call that holds the write lock (0: nobody)
MinecraftDb(type, unique, rows) ==
  [type |-> type, unique |-> unique, initial |-> rows, rows |-> rows,
   writer |-> 0]

\* nobody calls DatabaseManager.add_currency_to_player
CreditsIdle ==
  /\ credits = [w \in Workers |-> IdleCredit]
  /\ minecraft = MinecraftDb("sqlite", TRUE, <<>>)

\* the handler before its first request
HandlerIdle ==
  /\ pc = "idle"
  /\ handled = 0
  /\ req = [b |-> 0, signature |-> <<>>]
  /\ data = None
  /\ webhook_type = None
  /\ payload = None
  /\ player_name = None
  /\ game_currency = 0
  /\ result = [status |-> "none"]
  /\ http = [code |-> 0]
  /\ did = {}
  /\ sent = <<>>
  /\ records = <<>>

Init ==
  /\ rcon_config = ServerConfig
  /\ HandlerIdle
  /\ WorkersIdle
  /\ CreditsIdle
  /\ call = NoCall
  /\ ret = NoRet

(***************************************************************************)
(* handle_webhook (src/main.py), one action per step.                      *)
(***************************************************************************)
\* an exception leaves handle_webhook: the framework answers 500
Fault(e) ==
  /\ pc' = "faulted"
  /\ http' = [code |-> 500, detail |-> e]

\* raise HTTPException(status_code=code, detail=detail)
Reject(code, detail) ==
  /\ pc' = "responded"
  /\ http' = [code |-> code, detail |-> detail]

\* lines 254-258: the body and the trbt-signature header of a new request
Receive ==
  /\ pc \in {"idle", "responded", "faulted"}
  /\ handled < MaxRequests
  /\ \E b \in 1..Len(BodySeq) :
       \E signature \in Signatures(api_key, b) :
         req' = [b |-> b, signature |-> signature]
  /\ handled' = handled + 1
  /\ pc' = "received"
  /\ data' = None
  /\ webhook_type' = None
  /\ payload' = None
  /\ player_name' = None
  /\ game_currency' = 0
  /\ result' = [status |-> "none"]
  /\ http' = [code |-> 0]
  /\ did' = {}
  /\ sent' = <<>>
  /\ UNCHANGED <<creditVars, workerVars, rcon_config, records, call, ret>>

\* lines 261-267
VerifySignature ==
  /\ pc = "received"
  /\ did' = did \cup {"verify"}
  /\ LET r == verify_signature(req.b, req.signature, api_key)
     IN  IF r.exc # "none" THEN Fault(r.exc)
         ELSE IF ~r.val THEN Reject(401, "Invalid webhook signature")
         ELSE pc' = "authenticated" /\ UNCHANGED http
  /\ UNCHANGED <<creditVars, workerVars, rcon_config, handled, req, data,
                 webhook_type, payload,
                 player_name, game_currency, result, sent, records,
                 call, ret>>

\* lines 269-278
ParseJson ==
  /\ pc = "authenticated"
  /\ did' = did \cup {"parse"}
  /\ LET r == json_loads(BodySeq[req.b])
     IN  IF r.exc = "JSONDecodeError"
           THEN Reject(400, "Invalid JSON") /\ UNCHANGED data
         ELSE IF r.exc # "none" THEN Fault(r.exc) /\ UNCHANGED data
         ELSE pc' = "parsed" /\ data' = r.val /\ UNCHANGED http
  /\ UNCHANGED <<creditVars, workerVars, rcon_config, handled, req, webhook_type, payload,
                 player_name, game_currency, result, sent, records,
                 call, ret>>

\* a dispatch that takes every webhook for a donation
IsDonation_Always(type) == TRUE

\* line 285: webhook_type == 'new_donation'
IsDonation(type) == type = NewDonation

\* lines 280-290: data.get('name', ''), data.get('payload', {}), dispatch
Route ==
  /\ pc = "parsed"
  /\ did' = did \cup {"route"}
  /\ IF data.t # "obj"
       THEN Fault("AttributeError") /\ UNCHANGED <<webhook_type, payload>>
       ELSE /\ webhook_type' = DictGet(data.o, "name", JStr(<<>>))
            /\ payload' = DictGet(data.o, "payload", JObj(EmptyDict))
            /\ pc' = IF IsDonation(webhook_type')
                       THEN "donation" ELSE "other"
            /\ UNCHANGED http
  /\ UNCHANGED <<creditVars, workerVars, rcon_config, handled, req, data, player_name,
                 game_currency, result, sent, records, call, ret>>


\* the reason texts of the result objects, in ASCII
\*   'Не указано имя игрока в сообщении'
ReasonNoPlayerName == "player name not given in the message"

\*   'Валюта успешно начислена через RCON'
ReasonCredited == "currency credited through RCON"

\*   'Ошибка выполнения RCON команды'
ReasonRconFailed == "RCON command failed"

\*   f'Webhook {webhook_type} получен и сохранен'
ReasonReceived == "webhook received and saved"

\* the result object of process_new_donation after the RCON exchange
DonationResult(success, name, currency) ==
  [status |-> IF success THEN "success" ELSE "error",
   reason |-> IF success THEN ReasonCredited ELSE ReasonRconFailed,
   player_name |-> name,
   game_currency |-> currency]

\*   f'Исключение: {str(e)}'
ReasonException(e) == "exception: " \o e

\* the result object of process_new_donation when the call of
\* rcon_manager.add_currency_to_player raised e (lines 183-190)
ExceptionResult(e, name, currency) ==
  [status |-> "error",
   reason |-> ReasonException(e),
   player_name |-> name,
   game_currency |-> currency]

\* the try statement of lines 164-190 around the call, which returned a
\* truth value or raised
DonationOutcome(outcome, name, currency) ==
  IF outcome.exc = "none"
    THEN DonationResult(outcome.val, name, currency)
    ELSE ExceptionResult(outcome.exc, name, currency)

\* the result object of process_new_donation when the message names nobody
NoPlayerResult ==
  [status |-> "error", reason |-> ReasonNoPlayerName,
   player_name |-> None, game_currency |-> 0]

\* the result object of process_other_webhook
ReceivedResult == [status |-> "received", reason |-> ReasonReceived]

\* the row save_tribute_webhook inserts (src/database.py)
WebhookRow(type, pl, status, name, currency, error_message) ==
  [webhook_type |-> type, payload |-> pl, status |-> status,
   player_name |-> name, game_currency |-> currency,
   error_message |-> error_message]

\* a handler that reports the failed save in the result object
ResultAfterSave_Surfaced(res, stored) ==
  IF stored THEN res
            ELSE [status |-> "error", reason |-> "webhook not saved"]

\* main.py lines 203-204, 236-237: the exception of a failed save is logged
\* and nothing else; the result object is the one built without the save
ResultAfterSave(res, stored) == res

\* db_manager.save_tribute_webhook(...) inside try/except: the row is
\* inserted, or the call raises and the exception is logged; res is the
\* result object of the request
SaveTributeWebhook(row, res) ==
  /\ \E stored \in BOOLEAN :
       /\ records' = IF stored THEN Append(records, row) ELSE records
       /\ did' = did \cup {"persist",
                            IF stored THEN "saved" ELSE "save_raised"}
       /\ result' = ResultAfterSave(res, stored)

\* a test of the name that never short-circuits
NoPlayerName_Never(name) == FALSE

\* line 149: not player_name
NoPlayerName(name) == name = <<>>

\* process_new_donation lines 133-156: read the payload, extract the name,
\* build the error result when there is none
ExtractPlayer ==
  /\ pc = "donation"
  /\ IF payload.t # "obj"
       THEN /\ Fault("AttributeError")
            /\ UNCHANGED <<player_name, result, did>>
       ELSE LET message == DictGet(payload.o, "message", JStr(<<>>))
                r == extract_player_name(message)
            IN  /\ did' = did \cup {"extract"}
                /\ IF r.exc # "none"
                     THEN Fault(r.exc) /\ UNCHANGED <<player_name, result>>
                   ELSE /\ player_name' = JStr(r.val)
                        /\ UNCHANGED http
                        /\ IF NoPlayerName(r.val)
                             THEN /\ result' = NoPlayerResult
                                  /\ pc' = "resulted"
                             ELSE /\ pc' = "extracted"
                                  /\ UNCHANGED result
  /\ UNCHANGED <<creditVars, workerVars, rcon_config, handled, req, data,
                 webhook_type, payload,
                 game_currency, sent, records, call, ret>>

\* process_new_donation line 159
Convert ==
  /\ pc = "extracted"
  /\ did' = did \cup {"convert"}
  /\ LET amount == DictGet(payload.o, "amount", JInt(0))
         currency == DictGet(payload.o, "currency", JStr(<<>>))
         r == convert_to_game_currency(amount, currency)
     IN  IF r.exc # "none" THEN Fault(r.exc) /\ UNCHANGED game_currency
         ELSE /\ game_currency' = r.val
              /\ pc' = "converted"
              /\ UNCHANGED http
  /\ UNCHANGED <<creditVars, workerVars, rcon_config, handled, req, data,
                 webhook_type, payload,
                 player_name, result, sent, records, call, ret>>

\* process_new_donation lines 163-190: one RCON exchange and the result.
\* RconManager.add_currency_to_player returns a truth value whatever the
\* with-block met: execute_command catches every Exception itself.
AddCurrency ==
  /\ pc = "converted"
  /\ did' = did \cup {"rcon"}
  /\ \E transport \in Transports :
       LET success == add_currency_to_player(rcon_config, player_name.s,
                                             game_currency, transport)
       IN  /\ sent' = Append(sent,
                        [command |-> RenderCommand(rcon_config, player_name.s,
                                                   game_currency),
                         transport |-> transport])
           /\ result' = DonationOutcome(Ok(success), player_name,
                                        game_currency)
  /\ pc' = "resulted"
  /\ UNCHANGED <<creditVars, workerVars, rcon_config, handled, req, data,
                 webhook_type, payload,
                 player_name, game_currency, http, records, call, ret>>

\* process_new_donation lines 192-206
PersistDonation ==
  /\ pc = "resulted"
  /\ SaveTributeWebhook(
       WebhookRow(NewDonation, payload, result.status, result.player_name,
                  result.game_currency,
                  IF result.status = "error" THEN result.reason ELSE "None"),
       result)
  /\ pc' = "persisted"
  /\ UNCHANGED <<creditVars, workerVars, rcon_config, handled, req, data, webhook_type,
                 payload, player_name, game_currency, http, sent, call, ret>>

\* process_other_webhook lines 220-242
OtherWebhook ==
  /\ pc = "other"
  /\ SaveTributeWebhook(
       WebhookRow(webhook_type, payload, "received", None, 0, "None"),
       ReceivedResult)
  /\ pc' = "persisted"
  /\ UNCHANGED <<creditVars, workerVars, rcon_config, handled, req, data,
                 webhook_type, payload,
                 player_name, game_currency, http, sent, call, ret>>

\* handle_webhook lines 292-296
Respond ==
  /\ pc = "persisted"
  /\ http' = [code |-> 200, content |-> result]
  /\ pc' = "responded"
  /\ UNCHANGED <<creditVars, workerVars, rcon_config, handled, req, data,
                 webhook_type, payload,
                 player_name, game_currency, result, did, sent, records,
                 call, ret>>

Next ==
  \/ Receive
  \/ VerifySignature
  \/ ParseJson
  \/ Route
  \/ ExtractPlayer
  \/ Convert
  \/ AddCurrency
  \/ PersistDonation
  \/ OtherWebhook
  \/ Respond

Spec == Init /\ [][Next]_vars

(***************************************************************************)
(* Concurrent requests: each runs the dispatcher (src/main.py) on its own  *)
(* locals; the steps that touch the RCON server and the webhooks database  *)
(* interleave.                                                             *)
(***************************************************************************)
\* webhooks the concurrent requests carry
WorkerWebhooks ==
  {Envelope(NewDonation,
            Donation(JStr(Steve), JInt(10000), JStr(<<"R","U","B">>))),
   Envelope(NewDonation,
            Donation(JStr(<<>>), JInt(100), JStr(<<"R","U","B">>))),
   Envelope(NewSubscription, JObj(EmptyDict))}

\* texts the RCON server answers a concurrent request with
WorkerResponses == {<<>>, <<"§","a","O","K">>}

\* config['tribute_database']['type']
StorageTypes == {"sqlite", "mysql", "mongodb"}

InitWorkers ==
  /\ rcon_config = ServerConfig
  /\ HandlerIdle
  /\ \E type \in StorageTypes : WorkersIdleOn(type)
  /\ CreditsIdle
  /\ call = NoCall
  /\ ret = NoRet

\* handle_webhook lines 280-290 and process_new_donation lines 133-160:
\* route the webhook, extract the name, convert the amount
StartRequest(w) ==
  /\ workers[w].pc = "idle"
  /\ \E webhook \in WorkerWebhooks :
       LET type == DictGet(webhook.o, "name", JStr(<<>>))
           pl == DictGet(webhook.o, "payload", JObj(EmptyDict))
           name == extract_player_name(
                     DictGet(pl.o, "message", JStr(<<>>))).val
           converted == convert_to_game_currency(
                          DictGet(pl.o, "amount", JInt(0)),
                          DictGet(pl.o, "currency", JStr(<<>>))).val
       IN  workers' =
             [workers EXCEPT ![w] =
                IF type # NewDonation
                  THEN [@ EXCEPT !.pc = "save", !.webhook = webhook]
                ELSE IF NoPlayerName(name)
                  THEN [@ EXCEPT !.pc = "save", !.webhook = webhook,
                                 !.player_name = JStr(name),
                                 !.result = NoPlayerResult]
                ELSE [@ EXCEPT !.pc = "rcon_enter", !.webhook = webhook,
                               !.player_name = JStr(name),
                               !.game_currency = converted]]
  /\ UNCHANGED <<creditVars, rcon_config, handlerVars, sessions, storage, call, ret>>

\* a session that shares the identity of the first one
NewSession_Shared(s) == 1

\* MCRcon(self.host, self.password, self.port): a client object of its own
\* for every invocation
NewSession(s) == s.opened + 1

\* execute_command lines 79-94, add_currency_to_player lines 171-182 and
\* process_new_donation lines 167-182, the steps on the request's locals
\* once the with-block is left: the response is classified or the exception
\* handler builds its pair, and the result object is built
AfterExchange(self, transport) ==
  LET returned == execute_command(rcon_config, self.player_name.s,
                                  self.game_currency, transport)
  IN  [self EXCEPT !.pc = "save",
                   !.transport = transport,
                   !.classified = transport.kind = "response",
                   !.returned = returned,
                   !.result = DonationResult(returned.success,
                                             self.player_name,
                                             self.game_currency)]

\* execute_command line 76, entering the with-block: the session is opened,
\* or the connection is refused, or another exception is raised
RconEnter(w) ==
  /\ workers[w].pc = "rcon_enter"
  /\ \/ /\ sessions' =
             [opened |-> sessions.opened + 1,
              open |-> sessions.open
                         \cup {[id |-> NewSession(sessions), owner |-> w]}]
        /\ workers' =
             [workers EXCEPT ![w] =
                [@ EXCEPT !.pc = "rcon_command",
                          !.session = NewSession(sessions),
                          !.attempts = @ + 1]]
     \/ /\ \E t \in {TransportRefused, TransportError(TimedOut)} :
             workers' =
               [workers EXCEPT ![w] =
                  AfterExchange([@ EXCEPT !.attempts = @ + 1], t)]
        /\ UNCHANGED sessions
  /\ UNCHANGED <<creditVars, rcon_config, handlerVars, storage, call, ret>>

\* execute_command line 77, mcr.command(command): the command is sent and
\* the response is read, or an exception is raised
RconCommand(w) ==
  /\ workers[w].pc = "rcon_command"
  /\ \E t \in {TransportError(TimedOut)}
                \cup {TransportResponse(r) : r \in WorkerResponses} :
       workers' =
         [workers EXCEPT ![w] =
            [@ EXCEPT !.pc = "rcon_exit", !.transport = t,
                      !.commands = @ + 1,
                      !.reads = IF t.kind = "response" THEN @ + 1 ELSE @]]
  /\ UNCHANGED <<creditVars, rcon_config, handlerVars, sessions, storage, call, ret>>

\* an exit that leaves the session open when the command raised
SessionsAfterExit_Leak(open, id, transport) ==
  IF transport.kind = "response" THEN {s \in open : s.id # id} ELSE open

\* leaving the with-block, by return or by exception: the session is closed
SessionsAfterExit(open, id, transport) == {s \in open : s.id # id}

\* the end of the with-block (line 77 to 79, or to the handler at 91)
RconExit(w) ==
  /\ workers[w].pc = "rcon_exit"
  /\ sessions' =
       [sessions EXCEPT
          !.open = SessionsAfterExit(@, workers[w].session,
                                     workers[w].transport)]
  /\ workers' =
       [workers EXCEPT ![w] = AfterExchange(@, workers[w].transport)]
  /\ UNCHANGED <<creditVars, rcon_config, handlerVars, storage, call, ret>>

\* the row the request saves: process_new_donation lines 194-201,
\* process_other_webhook lines 228-234
WorkerRow(self) ==
  IF DictGet(self.webhook.o, "name", JStr(<<>>)) = NewDonation
    THEN WebhookRow(NewDonation,
                    DictGet(self.webhook.o, "payload", JObj(EmptyDict)),
                    self.result.status, self.result.player_name,
                    self.result.game_currency,
                    IF self.result.status = "error"
                      THEN self.result.reason ELSE "None")
    ELSE WebhookRow(DictGet(self.webhook.o, "name", JStr(<<>>)),
                    DictGet(self.webhook.o, "payload", JObj(EmptyDict)),
                    "received", None, 0, "None")

\* process_new_donation line 206, process_other_webhook lines 239-242: the
\* request returns its result object
Finished(self) ==
  [self EXCEPT !.pc = "done",
               !.result =
                  IF DictGet(self.webhook.o, "name", JStr(<<>>))
                       = NewDonation
                    THEN self.result ELSE ReceivedResult]

\* save_tribute_webhook, first half: _save_tribute_sqlite and
\* _save_tribute_mysql connect, or raise (caught at main.py 203 / 236);
\* _save_tribute_mongodb uses the client db_manager keeps
SaveConnect(w) ==
  /\ workers[w].pc = "save"
  /\ IF storage.type = "mongodb"
       THEN /\ workers' =
                 [workers EXCEPT ![w] = [@ EXCEPT !.pc = "insert",
                                                   !.conn = 0]]
            /\ UNCHANGED storage
       ELSE \/ /\ storage' =
                    [storage EXCEPT
                       !.connected = @ + 1,
                       !.open = @ \cup {[id |-> storage.connected + 1,
                                         owner |-> w]}]
               /\ workers' =
                    [workers EXCEPT ![w] =
                       [@ EXCEPT !.pc = "insert",
                                 !.conn = storage.connected + 1]]
            \/ /\ workers' = [workers EXCEPT ![w] = Finished(@)]
               /\ UNCHANGED storage
  /\ UNCHANGED <<creditVars, rcon_config, handlerVars, sessions, call, ret>>

\* connections open after the request is done with its own: the MongoDB
\* client stays, a connection of sqlite3 or pymysql is closed (line 204,
\* line 218) or dropped with the frame when the insert raised
ConnectionsAfterSave(type, open, id) ==
  IF type = "mongodb" THEN open ELSE {c \in open : c.id # id}

\* save_tribute_webhook, second half: the INSERT (insert_one), which appends
\* the row or raises; the exception is caught at main.py 203 / 236
SaveInsert(w) ==
  /\ workers[w].pc = "insert"
  /\ \E stored \in BOOLEAN :
       storage' =
         [storage EXCEPT
            !.rows = IF stored THEN Append(@, WorkerRow(workers[w])) ELSE @,
            !.open = ConnectionsAfterSave(storage.type, @, workers[w].conn)]
  /\ workers' = [workers EXCEPT ![w] = Finished(@)]
  /\ UNCHANGED <<creditVars, rcon_config, handlerVars, sessions, call, ret>>

NextWorkers ==
  \E w \in Workers :
    \/ StartRequest(w)
    \/ RconEnter(w)
    \/ RconCommand(w)
    \/ RconExit(w)
    \/ SaveConnect(w)
    \/ SaveInsert(w)

SpecWorkers == InitWorkers /\ [][NextWorkers]_vars


(***************************************************************************)
(* DatabaseManager.add_currency_to_player (src/database.py) called         *)
(* concurrently for one player, each call on a connection of its own: one  *)
(* action per database statement.                                          *)
(***************************************************************************)
\* amounts the calls credit
CreditAmounts == {5, 7}

\* self.minecraft_db_type once _init_minecraft_db has returned
MinecraftTypes == {"sqlite", "mysql"}

\* the player's rows before the first call: none, or one with balance 10
InitialRows == {<<>>, <<10>>}

InitCredit ==
  /\ rcon_config = ServerConfig
  /\ HandlerIdle
  /\ WorkersIdle
  /\ credits = [w \in Workers |-> IdleCredit]
  /\ \E type \in MinecraftTypes, unique \in BOOLEAN, rows \in InitialRows :
       minecraft = MinecraftDb(type, unique, rows)
  /\ call = NoCall
  /\ ret = NoRet

\* what cursor.fetchone() returns for a row of the SELECT
FetchedRow(balance) == [t |-> "row", balance |-> balance]

\* the call returns; a connection it leaves behind is dropped with the
\* statements it has not committed
CreditReturns(self, value) ==
  [self EXCEPT !.pc = "done", !.returned = value, !.staged = NothingStaged]

\* add_currency_to_player lines 243-249: the call goes to the function of
\* the backend
BeginCredit(w) ==
  /\ credits[w].pc = "idle"
  /\ \E amount \in CreditAmounts :
       credits' =
         [credits EXCEPT ![w] =
            [@ EXCEPT !.pc = IF minecraft.type = "sqlite"
                               THEN "select" ELSE "upsert",
                      !.amount = amount,
                      !.staged = NothingStaged]]
  /\ UNCHANGED <<rcon_config, handlerVars, workerVars, minecraft, call, ret>>

\* _add_currency_sqlite lines 266-270: connect, SELECT the player's balance
\* and fetch the first row. The SELECT runs outside a transaction and reads
\* the committed rows. An exception (the file cannot be opened) goes to the
\* handler of add_currency_to_player, lines 253-255.
SqliteSelect(w) ==
  /\ credits[w].pc = "select"
  /\ \/ credits' =
          [credits EXCEPT ![w] =
             [@ EXCEPT !.pc = "write",
                       !.read = IF minecraft.rows = <<>>
                                  THEN None
                                  ELSE FetchedRow(minecraft.rows[1])]]
     \/ credits' = [credits EXCEPT ![w] = CreditReturns(@, FALSE)]
  /\ UNCHANGED <<rcon_config, handlerVars, workerVars, minecraft, call, ret>>

\* the statement _add_currency_sqlite executes after the SELECT, lines
\* 272-283: UPDATE to the balance read plus the amount, or INSERT
SqliteStatement(self) ==
  IF self.read # None
    THEN [op |-> "update", balance |-> self.read.balance + self.amount]
    ELSE [op |-> "insert", balance |-> self.amount]

\* the INSERT meets a row of the player in a table with a UNIQUE key
DuplicateKey(statement) ==
  /\ statement.op = "insert"
  /\ minecraft.unique
  /\ minecraft.rows # <<>>

\* _add_currency_sqlite lines 272-283: the UPDATE or INSERT opens a
\* transaction and takes the write lock of the database. While another
\* connection holds the lock the statement waits, and raises "database is
\* locked" when the busy timeout passes; the INSERT of a duplicate key
\* raises IntegrityError. Both go to the handler of lines 253-255.
SqliteWrite(w) ==
  /\ credits[w].pc = "write"
  /\ LET self == credits[w]
         statement == SqliteStatement(self)
     IN  IF minecraft.writer # 0 \/ DuplicateKey(statement)
           THEN /\ credits' = [credits EXCEPT ![w] = CreditReturns(self, FALSE)]
                /\ UNCHANGED minecraft
           ELSE /\ credits' =
                     [credits EXCEPT ![w] =
                        [self EXCEPT !.pc = "commit", !.staged = statement]]
                /\ minecraft' = [minecraft EXCEPT !.writer = w]
  /\ UNCHANGED <<rcon_config, handlerVars, workerVars, call, ret>>

\* the player's rows once the statement is committed: UPDATE ... WHERE
\* player = ? sets every row of the player, INSERT adds a row, INSERT ...
\* ON DUPLICATE KEY UPDATE adds the amount to the row of the key if the
\* table has the key and the row, and adds a row otherwise
RowsAfter(rows, unique, statement) ==
  CASE statement.op = "update" ->
         [i \in 1..Len(rows) |-> statement.balance]
    [] statement.op = "insert" -> Append(rows, statement.balance)
    [] statement.op = "upsert" ->
         IF unique /\ rows # <<>>
           THEN [rows EXCEPT ![1] = @ + statement.amount]
           ELSE Append(rows, statement.amount)

\* conn.commit(), conn.close() and return True: lines 285-287 and 312-314
CommitCredit(w) ==
  /\ minecraft' =
       [minecraft EXCEPT
          !.rows = RowsAfter(@, minecraft.unique, credits[w].staged),
          !.writer = IF @ = w THEN 0 ELSE @]
  /\ credits' = [credits EXCEPT ![w] = CreditReturns(@, TRUE)]
  /\ UNCHANGED <<rcon_config, handlerVars, workerVars, call, ret>>

\* _add_currency_sqlite lines 285-287
SqliteCommit(w) ==
  /\ credits[w].pc = "commit"
  /\ CommitCredit(w)

\* _add_currency_mysql lines 298-308: connect and execute INSERT ... ON
\* DUPLICATE KEY UPDATE. With a UNIQUE key on the player column the
\* statement locks the player's key until the commit; while another
\* connection holds it the statement waits, and raises when the lock wait
\* timeout passes. An exception (of the connect too) goes to the handler of
\* add_currency_to_player, lines 253-255.
MysqlUpsert(w) ==
  /\ credits[w].pc = "upsert"
  /\ LET self == credits[w]
         statement == [op |-> "upsert", amount |-> self.amount]
     IN  \/ /\ minecraft.unique => minecraft.writer = 0
            /\ credits' =
                 [credits EXCEPT ![w] =
                    [self EXCEPT !.pc = "commit_upsert",
                                 !.staged = statement]]
            /\ minecraft' =
                 [minecraft EXCEPT
                    !.writer = IF minecraft.unique THEN w ELSE @]
         \/ /\ credits' = [credits EXCEPT ![w] = CreditReturns(self, FALSE)]
            /\ UNCHANGED minecraft
  /\ UNCHANGED <<rcon_config, handlerVars, workerVars, call, ret>>

\* _add_currency_mysql lines 312-314
MysqlCommit(w) ==
  /\ credits[w].pc = "commit_upsert"
  /\ CommitCredit(w)

NextCredit ==
  \E w \in Workers :
    \/ BeginCredit(w)
    \/ SqliteSelect(w)
    \/ SqliteWrite(w)
    \/ SqliteCommit(w)
    \/ MysqlUpsert(w)
    \/ MysqlCommit(w)

SpecCredit == InitCredit /\ [][NextCredit]_vars



(***************************************************************************)
(* The functions applied on their own: Init draws the arguments, the       *)
(* action applies the function.                                            *)
(***************************************************************************)
\* longest donation message drawn for extract_player_name
MaxMsgLen == 3
\* largest donation amount drawn besides 10000
MaxAmount == 120

\* all strings over alphabet of length at most n
Strings(alphabet, n) == UNION {[1..k -> alphabet] : k \in 0..n}

\* the call has returned or raised
Returned(fn) == call.fn = fn /\ ret.exc # "pending"

Keys == {<<"k","1">>, <<"k","2">>, <<"1">>}

InitVerify ==
  /\ rcon_config = ServerConfig
  /\ HandlerIdle
  /\ WorkersIdle
  /\ CreditsIdle
  /\ \E b \in 1..Len(BodySeq) : \E key \in Keys :
       \E signature \in Signatures(key, b) :
         call = [fn |-> "verify_signature", b |-> b, signature |-> signature,
                 key |-> key]
  /\ ret = NoRet

CallVerifySignature ==
  /\ call.fn = "verify_signature"
  /\ ret = NoRet
  /\ ret' = verify_signature(call.b, call.signature, call.key)
  /\ UNCHANGED <<creditVars, workerVars, rcon_config, handlerVars, call>>

SpecVerify == InitVerify /\ [][CallVerifySignature]_vars

Messages ==
  {JStr(m) : m \in Strings({" ", "\t", "S", "h"}, MaxMsgLen)}
    \cup {JStr(Steve), JStr(SteveHello), JStr(<<" ">> \o SteveHello \o <<" ">>)}

InitExtract ==
  /\ rcon_config = ServerConfig
  /\ HandlerIdle
  /\ WorkersIdle
  /\ CreditsIdle
  /\ \E message \in Messages :
       call = [fn |-> "extract_player_name", message |-> message]
  /\ ret = NoRet

CallExtractPlayerName ==
  /\ call.fn = "extract_player_name"
  /\ ret = NoRet
  /\ ret' = extract_player_name(call.message)
  /\ UNCHANGED <<creditVars, workerVars, rcon_config, handlerVars, call>>

SpecExtract == InitExtract /\ [][CallExtractPlayerName]_vars

Amounts == 0..MaxAmount \cup {10000}

Currencies ==
  {<<"R","U","B">>, <<"r","u","b">>, <<"R","u","b">>, <<"U","S","D">>,
   <<"u","s","d">>, <<"E","U","R">>, <<"Z","Z","Z">>, <<>>}

InitConvert ==
  /\ rcon_config = ServerConfig
  /\ HandlerIdle
  /\ WorkersIdle
  /\ CreditsIdle
  /\ \E amount \in Amounts : \E currency \in Currencies :
       call = [fn |-> "convert_to_game_currency", amount |-> amount,
               currency |-> currency]
  /\ ret = NoRet

CallConvert ==
  /\ call.fn = "convert_to_game_currency"
  /\ ret = NoRet
  /\ ret' = convert_to_game_currency(JInt(call.amount), JStr(call.currency))
  /\ UNCHANGED <<creditVars, workerVars, rcon_config, handlerVars, call>>

SpecConvert == InitConvert /\ [][CallConvert]_vars


\* command templates: the server's, one with the placeholders in the other
\* order, one with a placeholder twice
CommandTemplates ==
  {CommandTemplate,
   <<"p","a","y"," ">> \o CmdAmountPlaceholder \o <<" ">>
     \o CmdPlayerPlaceholder,
   CmdPlayerPlaceholder \o <<":">> \o CmdAmountPlaceholder \o <<":">>
     \o CmdPlayerPlaceholder}

PlayerNames ==
  {Steve, <<"x">>, CmdAmountPlaceholder, CmdPlayerPlaceholder,
   <<"%","a">>, <<"7","%">>, PlayerPlaceholder}

InitCommand ==
  /\ HandlerIdle
  /\ WorkersIdle
  /\ CreditsIdle
  /\ \E template \in CommandTemplates :
       rcon_config = [ServerConfig EXCEPT !.command = template]
  /\ \E name \in PlayerNames : \E amount \in Amounts :
       call = [fn |-> "execute_command", player_name |-> name,
               amount |-> amount]
  /\ ret = NoRet

\* execute_command lines 69-70: ret is the command that is sent
CallRenderCommand ==
  /\ call.fn = "execute_command"
  /\ ret = NoRet
  /\ ret' = Ok(RenderCommand(rcon_config, call.player_name, call.amount))
  /\ UNCHANGED <<creditVars, workerVars, rcon_config, handlerVars, call>>

SpecCommand == InitCommand /\ [][CallRenderCommand]_vars

\* pattern lists of the classifier: the pair of the specification ('ok',
\* 'fail'), no success pattern, no pattern at all, an empty error pattern,
\* overlapping patterns, patterns with placeholders
ClassifierConfigs ==
  {RconConfig(<<<<"o","k">>>>, <<<<"f","a","i","l">>>>),
   RconConfig(<<<<"o","k">>>>, <<<<>>>>),
   RconConfig(<<>>, <<<<"a","k">>>>),
   RconConfig(<<>>, <<>>),
   RconConfig(<<<<"o","k">>, <<"a">>>>, <<<<"a","k">>, <<"x","x">>>>),
   RconConfig(<<<<"s","u","c","c","e","s","s">>>>, <<>>),
   RconConfig(<<<<"g","a","v","e"," ">> \o PlayerPlaceholder \o <<" ">> \o AmountPlaceholder>>,
              <<PlayerPlaceholder \o <<" ","n","o","t"," ","f","o","u","n","d">>>>)}

\* responses: every text of at most MaxRespLen characters over a small
\* alphabet, and some longer server answers
Responses ==
  Strings({"§", "a", "x", "O", "k"}, MaxRespLen)
    \cup {<<"o","k"," ","f","a","i","l">>, <<"F","a","i","l","e","d">>,
          <<"§","a","§","l","S","u","c","c","e","s","s","§","r">>,
          <<"§","x","§","1","§","2","§","3","§","4","§","5","§","6","o","k">>,
          <<"§","X","§","A","§","b","§","C","§","d","§","E","§","f","O","K">>,
          <<"§","x","§","1","§","2","§","3","o","k">>,
          <<"G","a","v","e"," ","S","t","e","v","e"," ","1","0","0">>, <<"g","a","v","e"," ","s","t","e","v","e"," ","7">>, <<"S","t","e","v","e"," ","n","o","t"," ","f","o","u","n","d">>, <<"A","l","e","x"," ","n","o","t"," ","f","o","u","n","d">>}

InitClassify ==
  /\ HandlerIdle
  /\ WorkersIdle
  /\ CreditsIdle
  /\ rcon_config \in ClassifierConfigs
  /\ \E response \in Responses : \E name \in {Steve, <<"k","a">>} :
       \E amount \in {7, 100} :
         call = [fn |-> "_check_response", response |-> response,
                 player_name |-> name, amount |-> amount]
  /\ ret = NoRet

CallCheckResponse ==
  /\ call.fn = "_check_response"
  /\ ret = NoRet
  /\ ret' = Ok(_check_response(rcon_config, call.response, call.player_name,
                               call.amount))
  /\ UNCHANGED <<creditVars, workerVars, rcon_config, handlerVars, call>>

SpecClassify == InitClassify /\ [][CallCheckResponse]_vars


(***************************************************************************)
(* load_config and _apply_env_variables (src/config_loader.py).  A         *)
(* configuration is a function from section names to sections, a section a *)
(* function from keys to values; the environment is a function from the    *)
(* names of the variables that are set to their texts.                     *)
(***************************************************************************)
JBool(b) == [t |-> "bool", b |-> b]

\* the keys of env_mappings in their order, with the path of each
EnvMappings ==
  << [var |-> "SERVER_HOST", section |-> "server", key |-> "host"],
     [var |-> "SERVER_PORT", section |-> "server", key |-> "port"],
     [var |-> "SERVER_DEBUG", section |-> "server", key |-> "debug"],
     [var |-> "TRIBUTE_API_KEY", section |-> "tribute", key |-> "api_key"],
     [var |-> "RCON_HOST", section |-> "minecraft_rcon", key |-> "host"],
     [var |-> "RCON_PORT", section |-> "minecraft_rcon", key |-> "port"],
     [var |-> "RCON_PASSWORD", section |-> "minecraft_rcon",
      key |-> "password"],
     [var |-> "RCON_COMMAND", section |-> "minecraft_rcon",
      key |-> "command"] >>

\* the number a text of decimal digits denotes
RECURSIVE DigitsToNat(_)
DigitsToNat(s) ==
  IF s = <<>> THEN 0
  ELSE DigitsToNat(SubSeq(s, 1, Len(s) - 1)) * 10
         + ((CHOOSE d \in 1..10 : Digits[d] = s[Len(s)]) - 1)

\* int(text) for a str: surrounding whitespace, an optional sign, decimal
\* digits; anything else raises ValueError
ParseInt(text) ==
  LET t == Strip(text)
      signed == t # <<>> /\ t[1] \in {"+", "-"}
      body == IF signed THEN SubSeq(t, 2, Len(t)) ELSE t
  IN  IF body = <<>>
           \/ \E i \in 1..Len(body) : \A d \in 1..10 : Digits[d] # body[i]
        THEN Raised("ValueError")
        ELSE Ok(IF signed /\ t[1] = "-" THEN 0 - DigitsToNat(body)
                                        ELSE DigitsToNat(body))

\* lines 49-57: the value stored for an environment text
EnvValue(key, text) ==
  CASE key = "port"  -> LET n == ParseInt(text)
                        IN  IF n.exc = "none" THEN Ok(JInt(n.val)) ELSE n
    [] key = "debug" -> Ok(JBool(Lower(text) \in {<<"t","r","u","e">>,
     <<"1">>,
                                                   <<"y","e","s">>, <<"o",
    "n">>}))
    [] OTHER         -> Ok(JStr(text))

\* lines 40-45 and the assignment: config[section][key] = value, the section
\* created when it is missing
SetPath(config, section, key, value) ==
  LET current == IF section \in DOMAIN config THEN config[section]
                                              ELSE EmptyDict
  IN  [s \in DOMAIN config \cup {section} |->
         IF s = section
           THEN [k \in DOMAIN current \cup {key} |->
                   IF k = key THEN value ELSE current[k]]
           ELSE config[s]]

\* the loop of _apply_env_variables from mapping i on
RECURSIVE ApplyEnvFrom(_, _, _)
ApplyEnvFrom(config, env, i) ==
  IF i > Len(EnvMappings) THEN Ok(config)
  ELSE LET m == EnvMappings[i]
       IN  IF m.var \notin DOMAIN env THEN ApplyEnvFrom(config, env, i + 1)
           ELSE LET v == EnvValue(m.key, env[m.var])
                IN  IF v.exc # "none" THEN v
                    ELSE ApplyEnvFrom(SetPath(config, m.section, m.key, v.val),
                                      env, i + 1)

_apply_env_variables(config, env) == ApplyEnvFrom(config, env, 1)

\* not os.getenv(var): the variable is unset or empty
EnvMissing(env, var) == var \notin DOMAIN env \/ env[var] = <<>>

\* line 94
required_fields ==
  <<"server", "tribute", "currency_rates", "tribute_database",
    "minecraft_rcon">>

\* line 111
required_rcon_fields == <<"host", "port", "password", "command">>

\* 'YOUR_API_KEY_HERE'
YOUR_API_KEY_HERE == <<"Y","O","U","R","_","A","P","I","_","K","E","Y","_",
    "H","E","R","E">>

\* 'your_rcon_password'
your_rcon_password == <<"y","o","u","r","_","r","c","o","n","_","p","a","s",
    "s","w","o","r","d">>

\* 'YOUR_RCON_PASSWORD'
YOUR_RCON_PASSWORD == <<"Y","O","U","R","_","R","C","O","N","_","P","A","S",
    "S","W","O","R","D">>

\* line 105: api_key in ('YOUR_API_KEY_HERE', '', None)
IsPlaceholderKey(v) == v \in {JStr(YOUR_API_KEY_HERE), JStr(<<>>), JNull}

\* a test that knows the lower-case placeholder only
IsPlaceholderPassword_LowerOnly(v) ==
  v \in {JStr(your_rcon_password), JStr(<<>>), JNull}

\* line 124: rcon_password in ('your_rcon_password', 'YOUR_RCON_PASSWORD',
\* '', None)
IsPlaceholderPassword(v) ==
  v \in {JStr(your_rcon_password), JStr(YOUR_RCON_PASSWORD), JStr(<<>>),
         JNull}

\* lines 100-128, the checks made on the configuration after the
\* environment was applied
ValidateConfig(config, env) ==
  IF \E i \in 1..Len(required_fields) : required_fields[i] \notin DOMAIN config
    THEN Raised("ValueError")
  ELSE IF "api_key" \notin DOMAIN config["tribute"] THEN Raised("KeyError")
  ELSE IF /\ IsPlaceholderKey(config["tribute"]["api_key"])
          /\ EnvMissing(env, "TRIBUTE_API_KEY")
    THEN Raised("ValueError")
  ELSE LET rcon == config["minecraft_rcon"]
       IN  IF \E i \in 1..Len(required_rcon_fields) :
                required_rcon_fields[i] \notin DOMAIN rcon
             THEN Raised("ValueError")
           ELSE IF rcon["command"].t # "str" THEN Raised("TypeError")
           ELSE IF \/ ~Contains(rcon["command"].s, CmdPlayerPlaceholder)
                   \/ ~Contains(rcon["command"].s, CmdAmountPlaceholder)
             THEN Raised("ValueError")
           ELSE IF /\ IsPlaceholderPassword(rcon["password"])
                   /\ EnvMissing(env, "RCON_PASSWORD")
             THEN Raised("ValueError")
           ELSE Ok(config)

\* load_config: file.kind is "missing" when no file is at config_path, and
\* "yaml" when yaml.safe_load returns the mapping file.doc
load_config(file, env) ==
  IF file.kind = "missing" THEN Raised("FileNotFoundError")
  ELSE LET applied == _apply_env_variables(file.doc, env)
       IN  IF applied.exc # "none" THEN applied
           ELSE ValidateConfig(applied.val, env)

\* load_config: configuration files and environments
\* at most this many environment variables are set
MaxEnvVars == 2

\* a file value for tribute.api_key or a minecraft_rcon field that is not
\* written in the file
Absent == [t |-> "absent"]

ApiKeys == {Absent, JStr(YOUR_API_KEY_HERE), JStr(<<>>), JStr(<<"k","1">>)}

Passwords ==
  {JStr(your_rcon_password), JStr(YOUR_RCON_PASSWORD), JNull,
   JStr(<<"p","w">>)}

\* command templates with both placeholders, with one, with the other
FileCommands ==
  {CommandTemplate,
   <<"g","i","v","e"," ">> \o CmdPlayerPlaceholder,
   <<"g","i","v","e"," ">> \o CmdAmountPlaceholder}

\* the function d without the key k
Without(d, k) == [j \in DOMAIN d \ {k} |-> d[j]]

\* the mapping yaml.safe_load returns for a config.yaml that lacks the
\* section and the minecraft_rcon field named (none when the name is "none")
ConfigDoc(missing_section, key, missing_field, password, command) ==
  LET rcon == [host |-> JStr(<<"m","c">>), port |-> JInt(25575),
               password |-> password, command |-> JStr(command)]
      full == [server |-> [host |-> JStr(<<"h">>), port |-> JInt(8000),
                           debug |-> JBool(FALSE)],
               tribute |-> IF key = Absent THEN EmptyDict
                                           ELSE [api_key |-> key],
               currency_rates |-> [RUB |-> JInt(1)],
               tribute_database |-> [type |-> JStr(<<"s","q","l">>)],
               minecraft_rcon |-> Without(rcon, missing_field)]
  IN  Without(full, missing_section)

ConfigFiles ==
  {[kind |-> "missing"]}
    \cup {[kind |-> "yaml",
           doc |-> ConfigDoc(missing_section, key, missing_field, password,
                             command)] :
            missing_section \in {"none", "server", "tribute",
                                 "currency_rates", "tribute_database",
                                 "minecraft_rcon"},
            key \in ApiKeys,
            missing_field \in {"none", "host", "port", "password",
                               "command"},
            password \in Passwords,
            command \in FileCommands}

\* texts an environment variable is set to
EnvTexts ==
  [TRIBUTE_API_KEY |-> {<<>>, <<"e","k">>},
   RCON_PASSWORD |-> {<<>>, <<"e","p">>},
   RCON_PORT |-> {<<"2","5","5","7","6">>, <<"a","b","c">>},
   RCON_COMMAND |-> {<<"s","a","y"," ","h","i">>},
   RCON_HOST |-> {<<"h","3">>},
   SERVER_HOST |-> {<<"h","2">>}]

Environments ==
  UNION {{env \in [V -> UNION {EnvTexts[v] : v \in DOMAIN EnvTexts}] :
            \A v \in V : env[v] \in EnvTexts[v]} :
           V \in {W \in SUBSET DOMAIN EnvTexts : Cardinality(W) <= MaxEnvVars}}

InitConfig ==
  /\ rcon_config = ServerConfig
  /\ HandlerIdle
  /\ WorkersIdle
  /\ CreditsIdle
  /\ \E file \in ConfigFiles, env \in Environments :
       call = [fn |-> "load_config", file |-> file, env |-> env]
  /\ ret = NoRet

CallLoadConfig ==
  /\ call.fn = "load_config"
  /\ ret = NoRet
  /\ ret' = load_config(call.file, call.env)
  /\ UNCHANGED <<creditVars, workerVars, rcon_config, handlerVars, call>>

SpecConfig == InitConfig /\ [][CallLoadConfig]_vars

(***************************************************************************)
(* Properties.                                                             *)
(***************************************************************************)
\* the header of the current request is not the signature of its body
InvalidSignature ==
  req.b > 0 /\ req.signature # HmacHexDigest(api_key, req.b)

\* the handler has answered the current request
Answered == pc \in {"responded", "faulted"}

\* C1: a request whose trbt-signature header is not the valid signature of
\* its raw body (a missing or empty header included) is answered 401, and
\* for that request the handler never parses JSON, routes, extracts a player
\* name, converts, runs an RCON command or persists a record.
C1_InvalidSignatureRejected ==
  (InvalidSignature /\ pc # "received") =>
    /\ http.code = 401
    /\ did \subseteq {"verify"}
    /\ sent = <<>>

\* C2: verify_signature returns true exactly when the signature equals the
\* hex digest of the body under the key, and returns false, rather than
\* failing, for every other signature string.
C2_VerifyExact ==
  Returned("verify_signature") =>
    ret = Ok(call.signature = HmacHexDigest(call.key, call.b))

\* C3: every request ends in the state responded with a 200 result or a
\* deliberate 401 or 400 rejection, never with an unhandled fault.
C3_AlwaysResponded ==
  /\ pc # "faulted"
  /\ pc = "responded" => http.code \in {200, 400, 401}

\* C4: the status is 401 exactly when the signature verification fails, 400
\* exactly when the signature is valid and the body is not valid JSON, and
\* 200 in every other case, donation-processing failures included.
C4_StatusMapping ==
  Answered =>
    http.code = IF InvalidSignature THEN 401
                ELSE IF json_loads(BodySeq[req.b]).exc # "none" THEN 400
                ELSE 200

\* p is a case-insensitive substring of text
CIContains(text, p) == Contains(Lower(text), Lower(p))

\* some pattern of the list, rendered for the call, is a case-insensitive
\* substring of the cleaned response
AnyPatternMatches(patterns) ==
  \E i \in 1..Len(patterns) :
    CIContains(_strip_minecraft_colors(call.response),
               _replace_placeholders(patterns[i], call.player_name,
                                     call.amount))

\* C5: the verdict of _check_response follows the four-branch precedence:
\* false if an error pattern matches (even if a success pattern matches too
\* or the success list is empty), else true if a success pattern matches,
\* else true if the success list is empty, else false.
C5_FourBranchPrecedence ==
  Returned("_check_response") =>
    ret.val = CASE AnyPatternMatches(rcon_config.error_patterns) -> FALSE
                [] /\ ~AnyPatternMatches(rcon_config.error_patterns)
                   /\ AnyPatternMatches(rcon_config.success_patterns) -> TRUE
                [] /\ ~AnyPatternMatches(rcon_config.error_patterns)
                   /\ ~AnyPatternMatches(rcon_config.success_patterns)
                   /\ rcon_config.success_patterns = <<>> -> TRUE
                [] OTHER -> FALSE

\* an error pattern and a success pattern both match and the verdict is false
C5_Witness ==
  /\ Returned("_check_response")
  /\ AnyPatternMatches(rcon_config.error_patterns)
  /\ AnyPatternMatches(rcon_config.success_patterns)
  /\ ret.val = FALSE

\* s contains a formatting code
HasFormattingCode(s) ==
  \E i \in 1..Len(s) : ColorCodeAt(s, i) \/ HexColorAt(s, i)

\* s with formatting codes removed until none is left
RECURSIVE WithoutCodes(_)
WithoutCodes(s) ==
  IF HasFormattingCode(s) THEN WithoutCodes(_strip_minecraft_colors(s)) ELSE s

\* C6: the classifier removes all formatting codes before matching: the
\* text it matches contains no formatting code, and the verdict equals the
\* verdict on the response with all codes removed and letters lowercased.
C6_AllCodesRemoved ==
  Returned("_check_response") =>
    /\ ~HasFormattingCode(_strip_minecraft_colors(call.response))
    /\ ret.val = _check_response(rcon_config,
                                 Lower(WithoutCodes(call.response)),
                                 call.player_name, call.amount)

\* floor(amount * rate) for the rate num/den
FloorOfProduct(amount, rate) == (amount * rate.num) \div rate.den

\* C7: convert_to_game_currency returns floor(amount * rate) for the rate of
\* the upper-cased currency code (no division by 100), and 0 when the code is
\* not in the rate table; the result is a non-negative integer.
C7_ConvertFloor ==
  Returned("convert_to_game_currency") =>
    LET code == Upper(call.currency)
    IN  /\ ret = Ok(IF code \in DOMAIN currency_rates
                      THEN FloorOfProduct(call.amount,
                                          currency_rates[code].lit)
                      ELSE 0)
        /\ ret.val >= 0

\* the longest prefix of s without whitespace
RECURSIVE TokenPrefix(_)
TokenPrefix(s) ==
  IF s = <<>> \/ Head(s) \in Whitespace THEN <<>>
  ELSE <<Head(s)>> \o TokenPrefix(Tail(s))

\* C8: extract_player_name returns the first whitespace-delimited token of
\* the trimmed message, and the empty string, without raising, when the
\* message is empty or all whitespace.
C8_ExtractFirstToken ==
  Returned("extract_player_name") =>
    ret = Ok(TokenPrefix(LStrip(call.message.s)))

\* C9: whenever the extracted player name is empty, the result has status
\* error, the missing-name reason, no player name and game_currency 0, and
\* neither conversion nor RCON execution is attempted for the request.
C9_EmptyNameShortCircuits ==
  ("extract" \in did /\ player_name = JStr(<<>>)) =>
    /\ result.status = "error"
    /\ result.reason = ReasonNoPlayerName
    /\ result.player_name = None
    /\ result.game_currency = 0
    /\ "convert" \notin did
    /\ "rcon" \notin did
    /\ sent = <<>>

\* a donation with an empty extracted name has been answered
C9_Witness ==
  /\ pc = "responded"
  /\ "extract" \in did
  /\ player_name = JStr(<<>>)
  /\ http.code = 200

\* the template with both placeholders substituted in one pass, so that the
\* substituted texts are not searched again
RECURSIVE SubstituteFrom(_, _, _, _)
SubstituteFrom(t, i, name, amount) ==
  IF i > Len(t) THEN <<>>
  ELSE IF MatchAt(t, CmdPlayerPlaceholder, i)
    THEN name \o SubstituteFrom(t, i + Len(CmdPlayerPlaceholder), name, amount)
  ELSE IF MatchAt(t, CmdAmountPlaceholder, i)
    THEN amount
           \o SubstituteFrom(t, i + Len(CmdAmountPlaceholder), name, amount)
  ELSE <<t[i]>> \o SubstituteFrom(t, i + 1, name, amount)

\* C10: the command sent is the template with %player_name% replaced by the
\* player name and %amount% by the decimal amount; the player name appears
\* verbatim, text inside it is not substituted.
C10_CommandVerbatim ==
  Returned("execute_command") =>
    ret.val = SubstituteFrom(rcon_config.command, 1, call.player_name,
                             IntToStr(call.amount))


(***************************************************************************)
(* The RCON session of execute_command.                                    *)
(***************************************************************************)
\* the request is past its call of execute_command
ExecuteReturned(w) ==
  /\ workers[w].attempts > 0
  /\ workers[w].pc \in {"save", "insert", "done"}

\* C11: every invocation of execute_command makes one attempt: it enters
\* the with-block at most once, so it opens at most one session, sends at
\* most one command and reads at most one response, it does not try again
\* after a refusal or an exception, and once it has returned, by whichever
\* path, no session it opened is open.
C11_OneAttemptSessionClosed ==
  \A w \in Workers :
    /\ workers[w].attempts <= 1
    /\ workers[w].commands <= 1
    /\ workers[w].reads <= workers[w].commands
    /\ Cardinality({s \in sessions.open : s.owner = w}) <= 1
    /\ workers[w].transport.kind \in {"refused", "error"}
         => workers[w].pc # "rcon_enter"
    /\ ExecuteReturned(w) => \A s \in sessions.open : s.owner # w

\* an invocation whose command raised has returned, its session closed,
\* while the session of another request is open
C11_Witness ==
  \E w \in Workers :
    /\ ExecuteReturned(w)
    /\ workers[w].commands = 1
    /\ workers[w].transport.kind = "error"
    /\ \A s \in sessions.open : s.owner # w
    /\ sessions.open # {}


\* the exchange of the request ended without a response
TransportFailed(w) == workers[w].transport.kind \in {"refused", "error"}

\* C12: the executor keeps its outcomes apart: a refused connection or a
\* transport exception is never passed to the classifier, a response (empty
\* or not) always is, and what add_currency_to_player hands to the
\* dispatcher for a transport failure differs from what it hands over for
\* every response.
C12_OutcomesDistinct ==
  \A w1, w2 \in Workers :
    (ExecuteReturned(w1) /\ ExecuteReturned(w2)) =>
      /\ TransportFailed(w1) => ~workers[w1].classified
      /\ ~TransportFailed(w1) => workers[w1].classified
      /\ (TransportFailed(w1) /\ ~TransportFailed(w2))
           => workers[w1].returned.success # workers[w2].returned.success


(***************************************************************************)
(* The dispatcher and the RCON outcome.                                    *)
(***************************************************************************)
\* the request made its RCON exchange and has its result object
Exchanged ==
  /\ "rcon" \in did
  /\ Len(sent) = 1
  /\ pc \in {"resulted", "persisted", "responded"}

\* C13: when the RCON connection is refused for a donation with a player
\* name, the result has status "error", its game_currency is the converted
\* amount, and its reason is not the reason given when the server answered
\* and the response was classified as a failure.
C13_RefusedReason ==
  (Exchanged /\ sent[1].transport = TransportRefused) =>
    /\ result.status = "error"
    /\ result.game_currency = game_currency
    /\ \A r \in RconResponses :
         ~add_currency_to_player(rcon_config, player_name.s, game_currency,
                                 TransportResponse(r))
           => result.reason
                # DonationResult(FALSE, player_name, game_currency).reason


\* the donation names a currency code, and the rate table has no rate for it
UnknownCurrency ==
  /\ payload.t = "obj"
  /\ LET currency == DictGet(payload.o, "currency", JStr(<<>>))
     IN  /\ currency.t = "str"
         /\ currency.s # <<>>
         /\ Upper(currency.s) \notin DOMAIN currency_rates

\* C14: a donation in a currency the rate table lacks is not aborted, and
\* its result object surfaces the failed conversion: the result does not
\* present the donation as a successful credit.
C14_UnknownCurrencySurfaced ==
  ("convert" \in did /\ UnknownCurrency) =>
    /\ pc # "faulted"
    /\ pc \in {"resulted", "persisted", "responded"}
         => result.status # "success"


(***************************************************************************)
(* Persistence of the webhook record.                                      *)
(***************************************************************************)
\* the result object of the request as the dispatcher builds it from the
\* webhook and the RCON outcome, the save left aside
ResultWithoutSave ==
  IF webhook_type # NewDonation THEN ReceivedResult
  ELSE IF "rcon" \in did
    THEN DonationResult(
           add_currency_to_player(rcon_config, player_name.s, game_currency,
                                  sent[1].transport),
           player_name, game_currency)
    ELSE NoPlayerResult

\* C15: the save of the webhook record does not touch the result: after
\* the persistence attempt, whether the row was stored or the save raised,
\* the result object is the one built without it, and the HTTP response is
\* 200 with that result.
C15_ResultUnaffectedBySave ==
  ("persist" \in did) =>
    /\ pc \in {"persisted", "responded"}
    /\ result = ResultWithoutSave
    /\ pc = "responded" => http = [code |-> 200, content |-> ResultWithoutSave]

\* a credited donation whose save raised has been answered
C15_Witness ==
  /\ "save_raised" \in did
  /\ pc = "responded"
  /\ result.status = "success"


\* the last row of the webhooks table
LastRecord == records[Len(records)]

\* C16: every webhook that passed signature verification and JSON parsing
\* gets one persistence attempt, made once the result exists, with the
\* webhook type, the payload, the status of the result and an error message
\* exactly when that status is "error"; and the webhooks table only grows
\* by appended rows.
C16_OnePersistenceAttempt ==
  /\ []((Answered /\ "route" \in did) => "persist" \in did)
  /\ []("persist" \in did => result.status # "none")
  /\ []("saved" \in did =>
          /\ LastRecord.webhook_type = webhook_type
          /\ LastRecord.payload = payload
          /\ LastRecord.status = result.status
          /\ (LastRecord.error_message # "None")
               <=> (result.status = "error"))
  /\ [][\/ records' = records
        \/ /\ "persist" \notin did
           /\ Len(records') = Len(records) + 1
           /\ SubSeq(records', 1, Len(records)) = records]_vars


\* the request carried a JSON object whose type is not that of a donation
OtherType ==
  /\ "route" \in did
  /\ data.t = "obj"
  /\ webhook_type # NewDonation

\* C17: an authenticated webhook (a JSON object) of any type but
\* "new_donation", a missing or empty type included, gets no player-name
\* extraction, no conversion and no RCON command; its result has status
\* "received", and the record saved for it has status "received",
\* game_currency 0 and no player name.
C17_OtherTypesOnlyRecorded ==
  OtherType =>
    /\ did \cap {"extract", "convert", "rcon"} = {}
    /\ sent = <<>>
    /\ pc \in {"other", "persisted", "responded"}
    /\ pc # "other" => result.status = "received"
    /\ pc = "responded" => (http.code = 200 /\ http.content.status = "received")
    /\ "saved" \in did =>
         /\ LastRecord.status = "received"
         /\ LastRecord.game_currency = 0
         /\ LastRecord.player_name = None

\* a webhook without a type has been recorded and answered
C17_Witness ==
  /\ OtherType
  /\ webhook_type = JStr(<<>>)
  /\ "saved" \in did
  /\ pc = "responded"


(***************************************************************************)
(* Concurrent requests.                                                    *)
(***************************************************************************)
\* the result object a request gets when it is handled alone with this
\* webhook and this RCON outcome
SoloResult(webhook, transport) ==
  LET type == DictGet(webhook.o, "name", JStr(<<>>))
      pl == DictGet(webhook.o, "payload", JObj(EmptyDict))
      name == extract_player_name(DictGet(pl.o, "message", JStr(<<>>))).val
      converted == convert_to_game_currency(
                     DictGet(pl.o, "amount", JInt(0)),
                     DictGet(pl.o, "currency", JStr(<<>>))).val
  IN  IF ~IsDonation(type) THEN ReceivedResult
      ELSE IF NoPlayerName(name) THEN NoPlayerResult
      ELSE DonationResult(
             add_currency_to_player(ServerConfig, name, converted, transport),
             JStr(name), converted)

\* no two requests use the same RCON session
OwnSessions ==
  \A w1, w2 \in Workers :
    (w1 # w2 /\ workers[w1].session # 0 /\ workers[w2].session # 0)
      => workers[w1].session # workers[w2].session

\* no two requests write through the same storage connection
OwnConnections ==
  \A w1, w2 \in Workers :
    (w1 # w2 /\ workers[w1].pc = "insert" /\ workers[w2].pc = "insert")
      => workers[w1].conn # workers[w2].conn

\* the RCON command specification is the one read at start-up, and when
\* the requests have finished each has the result it would have had alone
Unperturbed ==
  /\ rcon_config = ServerConfig
  /\ (\A w \in Workers : workers[w].pc = "done")
       => \A w \in Workers :
            workers[w].result
              = SoloResult(workers[w].webhook, workers[w].transport)

\* C18 as stated: under every interleaving each request has an RCON session
\* and a storage connection of its own, the command specification is not
\* modified, and each result is the one the request would get alone.
C18_NothingShared == OwnSessions /\ OwnConnections /\ Unperturbed

\* C18, amended: under every interleaving each request has an RCON session
\* of its own and, with the sqlite and mysql backends, a storage connection
\* of its own, while with the mongodb backend every request writes through
\* the client opened at start-up; the command specification is not
\* modified, and each result is the one the request would get alone.
C18_SharedOnlyMongoClient ==
  /\ OwnSessions
  /\ IF storage.type = "mongodb"
       THEN \A w \in Workers : workers[w].pc = "insert" => workers[w].conn = 0
       ELSE OwnConnections
  /\ Unperturbed

\* two requests hold an RCON session at the same time, and the exchange of
\* one ended differently from the exchange of the other
C18_Witness ==
  \E w1, w2 \in Workers :
    /\ w1 # w2
    /\ workers[w1].pc = "rcon_exit"
    /\ workers[w2].pc = "rcon_exit"
    /\ Cardinality(sessions.open) >= 2
    /\ workers[w1].transport # workers[w2].transport


(***************************************************************************)
(* load_config.                                                            *)
(***************************************************************************)
\* the text of the environment variable mapped to section.key, if one is set
EnvFor(env, section, key) ==
  {env[EnvMappings[i].var] :
     i \in {j \in 1..Len(EnvMappings) :
              /\ EnvMappings[j].section = section
              /\ EnvMappings[j].key = key
              /\ EnvMappings[j].var \in DOMAIN env}}

\* the keys the section has once the environment is laid over the file
MergedKeys(doc, env, section) ==
  (IF section \in DOMAIN doc THEN DOMAIN doc[section] ELSE {})
    \cup {EnvMappings[i].key :
            i \in {j \in 1..Len(EnvMappings) :
                     /\ EnvMappings[j].section = section
                     /\ EnvMappings[j].var \in DOMAIN env}}

\* the sections of the file and those the environment supplies a value for
MergedSections(doc, env) ==
  DOMAIN doc \cup {EnvMappings[i].section :
                     i \in {j \in 1..Len(EnvMappings) :
                              EnvMappings[j].var \in DOMAIN env}}

\* the value of section.key with the environment taking priority: a port is
\* the number the text denotes, everything else the text itself
MergedValue(doc, env, section, key) ==
  IF EnvFor(env, section, key) # {}
    THEN LET text == CHOOSE t \in EnvFor(env, section, key) : TRUE
         IN  IF key = "port" THEN JInt(DigitsToNat(text)) ELSE JStr(text)
    ELSE doc[section][key]

\* the file values with the environment values laid over them
Merged(doc, env) ==
  [s \in MergedSections(doc, env) |->
     [k \in MergedKeys(doc, env, s) |-> MergedValue(doc, env, s, k)]]

MergedHas(doc, env, section, key) ==
  /\ section \in MergedSections(doc, env)
  /\ key \in MergedKeys(doc, env, section)

\* the failures the claim lists, on the merged configuration: a required
\* section or minecraft_rcon field is absent, the command lacks a
\* placeholder, or a secret is a placeholder or empty while isSet does not
\* hold of its environment variable
ListedFailure(doc, env, isSet(_)) ==
  \/ \E s \in {"server", "tribute", "currency_rates", "tribute_database",
               "minecraft_rcon"} : s \notin MergedSections(doc, env)
  \/ \E k \in {"host", "port", "password", "command"} :
       ~MergedHas(doc, env, "minecraft_rcon", k)
  \/ /\ MergedHas(doc, env, "minecraft_rcon", "command")
     /\ LET command == MergedValue(doc, env, "minecraft_rcon", "command").s
        IN  \/ ~Contains(command, <<"%","p","l","a","y","e","r","_","n","a",
                                    "m","e","%">>)
            \/ ~Contains(command, <<"%","a","m","o","u","n","t","%">>)
  \/ /\ MergedHas(doc, env, "tribute", "api_key")
     /\ MergedValue(doc, env, "tribute", "api_key")
          \in {JStr(YOUR_API_KEY_HERE), JStr(<<>>), JNull}
     /\ ~isSet("TRIBUTE_API_KEY")
  \/ /\ MergedHas(doc, env, "minecraft_rcon", "password")
     /\ MergedValue(doc, env, "minecraft_rcon", "password")
          \in {JStr(your_rcon_password), JStr(YOUR_RCON_PASSWORD),
               JStr(<<>>), JNull}
     /\ ~isSet("RCON_PASSWORD")

\* a port variable of the environment is set to a text that is no number
BadPort(env) ==
  \E v \in {"SERVER_PORT", "RCON_PORT"} :
    v \in DOMAIN env /\ ParseInt(env[v]).exc # "none"

\* load_config was applied to an existing file
Loaded == Returned("load_config") /\ call.file.kind = "yaml"

\* C19 as stated: load_config raises exactly when a required section or
\* minecraft_rcon field is absent, the command template lacks a placeholder,
\* or a secret is left at a placeholder or empty without its environment
\* variable being set; otherwise it returns the file values with the
\* environment values laid over them.
C19_FailsExactlyWhenListed ==
  Loaded =>
    LET doc == call.file.doc
        env == call.env
        IsSet(v) == v \in DOMAIN env
    IN  IF ListedFailure(doc, env, IsSet)
          THEN ret.exc # "none"
          ELSE ret = Ok(Merged(doc, env))

\* C19, amended: load_config raises when a failure the claim lists holds of
\* the configuration after the environment is applied, an empty environment
\* text counting as not set, and also when the tribute section has no
\* api_key or a port variable of the environment is not a number; otherwise
\* it returns the file values with the environment values laid over them.
C19_FailsWhenListedOrMalformed ==
  Loaded =>
    LET doc == call.file.doc
        env == call.env
        IsSet(v) == v \in DOMAIN env /\ env[v] # <<>>
    IN  IF \/ ListedFailure(doc, env, IsSet)
           \/ BadPort(env)
           \/ /\ "tribute" \in MergedSections(doc, env)
              /\ ~MergedHas(doc, env, "tribute", "api_key")
          THEN ret.exc # "none"
          ELSE ret = Ok(Merged(doc, env))

\* the file leaves the API key at its placeholder, TRIBUTE_API_KEY is set,
\* and load_config returned the configuration with the key of the
\* environment
C19_Witness ==
  /\ Loaded
  /\ "tribute" \in DOMAIN call.file.doc
  /\ "api_key" \in DOMAIN call.file.doc["tribute"]
  /\ call.file.doc["tribute"]["api_key"] = JStr(YOUR_API_KEY_HERE)
  /\ "TRIBUTE_API_KEY" \in DOMAIN call.env
  /\ ret.exc = "none"
  /\ ret.val["tribute"]["api_key"] = JStr(call.env["TRIBUTE_API_KEY"])


(***************************************************************************)
(* The donation path end to end.                                           *)
(***************************************************************************)
\* the donation has its result object
DonationResulted ==
  /\ "extract" \in did
  /\ pc \in {"resulted", "persisted", "responded"}

\* the request sent over RCON the command that credits amount to name, the
\* name verbatim, and the classifier accepted the answer of the server
Credited(name, amount) ==
  /\ Len(sent) = 1
  /\ sent[1].command
       = SubstituteFrom(rcon_config.command, 1, name, IntToStr(amount))
  /\ sent[1].transport.kind = "response"
  /\ _check_response(rcon_config, sent[1].transport.text, name, amount)

\* C20: on the donation path the result has status "success" exactly when
\* an RCON command was executed for the request with the extracted player
\* name and the converted amount and the classifier accepted the response;
\* then game_currency of the result is the amount sent in the command.
C20_SuccessIffCredited ==
  DonationResulted =>
    /\ (result.status = "success")
         <=> (/\ player_name.t = "str"
              /\ Credited(player_name.s, game_currency))
    /\ result.status = "success"
         => Credited(result.player_name.s, result.game_currency)


(***************************************************************************)
(* Exceptions of the command-execution step.                               *)
(***************************************************************************)
\* the text holds the part as a run of consecutive characters
Carries(text, part) ==
  \E i \in 1..(Len(text) - Len(part) + 1) :
    SubSeq(text, i, i + Len(part) - 1) = part

\* the RCON exchange of the request failed with an exception other than a
\* refused connection
ExchangeRaised ==
  /\ Exchanged
  /\ sent[1].transport.kind = "error"

\* C21: when the RCON exchange fails with an exception other than a refused
\* connection, the result has status "error", its reason carries the
\* description of that exception, its game_currency is the converted
\* amount, and the request is answered with 200 after the persistence
\* attempt.
C21_ExceptionReason ==
  ExchangeRaised =>
    /\ result.status = "error"
    /\ Carries(result.reason, sent[1].transport.e)
    /\ result.game_currency = game_currency
    /\ pc # "faulted"
    /\ pc = "responded" => ("persist" \in did /\ http.code = 200)


(***************************************************************************)
(* The player's balance under concurrent credits.                          *)
(***************************************************************************)
RECURSIVE SumRows(_)
\* the sum of the balances of the rows
SumRows(rows) ==
  IF rows = <<>> THEN 0 ELSE Head(rows) + SumRows(Tail(rows))

RECURSIVE SumAmounts(_)
\* the sum of the amounts of the calls
SumAmounts(ws) ==
  IF ws = {}
    THEN 0
    ELSE LET w == CHOOSE x \in ws : TRUE
         IN  credits[w].amount + SumAmounts(ws \ {w})

\* the calls that have returned
ReturnedCredits == {w \in Workers : credits[w].pc = "done"}

\* no call is in progress, at least one has returned, and each call that
\* has returned has returned True
CreditsAllTrue ==
  /\ ReturnedCredits # {}
  /\ \A w \in Workers : credits[w].pc \in {"idle", "done"}
  /\ \A w \in ReturnedCredits : credits[w].returned = TRUE

\* C22: after concurrent calls of DatabaseManager.add_currency_to_player
\* for one player that each returned True, the stored balance of the player
\* is the balance before the calls (0 if the player had no row) plus the
\* sum of the amounts of the calls.
C22_BalanceAdditive ==
  CreditsAllTrue =>
    SumRows(minecraft.rows)
      = SumRows(minecraft.initial) + SumAmounts(ReturnedCredits)

====
